---- MODULE Spec2Model ----
(***************************************************************************)
(* A model of sleep.py: the sleep-night assignment (assign_sleep_day), the *)
(* augmentation pipeline (augment_data), file discovery (get_file) and the *)
(* main script that chains them and hands the result to plot_sleep_data.   *)
(*                                                                         *)
(* Numbers: pandas computes sleep_hours and the rolling columns in float64,*)
(* and so does the model, bit for bit: division, compensated (Kahan) group *)
(* sums and the rolling sum and mean of pandas 2.                          *)
(***************************************************************************)
EXTENDS Integers, Sequences, FiniteSets, TLC

VARIABLES
    dir,                    \* names of the files in the working directory
    csv,                    \* rows of the CSV export, in file order
    pc,                     \* position of the main script
    first_csv_file_found,   \* main's variable of that name
    df,                     \* the DataFrame object read_csv returned
    ret,                    \* what each call augment_data(df) returned, oldest first
    err,                    \* the exception that ended the run, "none" if none
    plotted,                \* the tables plot_sleep_data was called with
    asd,                    \* the last direct call of assign_sleep_day
    now                     \* the clock: the time of the run

vars == <<dir, csv, pc, first_csv_file_found, df, ret, err, plotted, asd, now>>

(***************************************************************************)
(* Program constants.                                                      *)
(***************************************************************************)
TARGET_SLEEP == 8
DefaultCutoffHour == 4
MinutesPerHour == 60
DebtWindow == 14
SleepWindow == 7

(***************************************************************************)
(* Bounds of the model.                                                    *)
(***************************************************************************)
FirstYear == 2023       \* first calendar year of the timestamps tried
NumYears == 2           \* number of calendar years tried
EdgeDays == 1           \* days tried at each end of every month
CutoffMargin == 2       \* cutoff_hour ranges over -CutoffMargin..23+CutoffMargin
MaxRows == 3            \* rows of a short export
MaxCalls == 2           \* calls of augment_data on one table object
MaxNights == 16         \* rows of a long export, one sleep-night after another
MaxIrregular == 1       \* rows of a long export that break its regular pattern

(***************************************************************************)
(* Calendar arithmetic of datetime: a date is <<year, month, day>>, and    *)
(* subtracting a timedelta goes through the proleptic Gregorian ordinal.   *)
(***************************************************************************)
IsLeap(y) == (y % 4 = 0) /\ ((y % 100 # 0) \/ (y % 400 = 0))

DaysInMonth(y, m) ==
    IF m = 2 THEN (IF IsLeap(y) THEN 29 ELSE 28)
    ELSE IF m \in {4, 6, 9, 11} THEN 30 ELSE 31

DaysBeforeYear(y) ==
    (y - 1) * 365 + ((y - 1) \div 4) - ((y - 1) \div 100) + ((y - 1) \div 400)

RECURSIVE DaysBeforeMonth(_, _)
DaysBeforeMonth(y, m) ==
    IF m = 1 THEN 0 ELSE DaysBeforeMonth(y, m - 1) + DaysInMonth(y, m - 1)

ToOrdinal(date) ==
    DaysBeforeYear(date[1]) + DaysBeforeMonth(date[1], date[2]) + date[3]

RECURSIVE YearOfOrdinal(_, _)
YearOfOrdinal(n, y) ==
    IF n > DaysBeforeYear(y + 1) THEN YearOfOrdinal(n, y + 1) ELSE y

RECURSIVE MonthDayOf(_, _, _)
MonthDayOf(y, m, rest) ==
    IF rest > DaysInMonth(y, m)
    THEN MonthDayOf(y, m + 1, rest - DaysInMonth(y, m))
    ELSE <<y, m, rest>>

FromOrdinal(n) ==
    LET y == YearOfOrdinal(n, ((n - 1) \div 366) + 1)
    IN  MonthDayOf(y, 1, n - DaysBeforeYear(y))

\* The order of dates
DateLess(a, b) ==
    \/ a[1] < b[1]
    \/ a[1] = b[1] /\ a[2] < b[2]
    \/ a[1] = b[1] /\ a[2] = b[2] /\ a[3] < b[3]

\* No date: what a call that raised has returned.
NoDate == <<0, 0, 0>>

\* NaT.date(): the date of no time at all, which no date equals.
NaTDate == <<0, 0, 1>>

\* A point in time to the second.  type tells a datetime.datetime from its
\* subclass, the pandas Timestamp, of resolution nanoseconds ("Timestamp[ns]",
\* as pd.to_datetime of pandas 2 makes them) or seconds ("Timestamp[s]", as
\* pd.Timestamp makes them from text outside the nanosecond range), and from
\* NaT, the missing Timestamp.
Moment(type, date, hour, minute, second) ==
    [type |-> type, date |-> date, hour |-> hour, minute |-> minute,
     second |-> second]

NaT == Moment("NaT", NaTDate, 0, 0, 0)

\* datetime.min.date(): no date has a smaller ordinal.
MinDate == <<1, 1, 1>>

\* Timestamp.min and Timestamp.max of nanosecond resolution, 1677-09-21 00:12:43.145224193 and
\* 2262-04-11 23:47:16.854775807, without their fractions of a second.
MinTimestamp == Moment("Timestamp[ns]", <<1677, 9, 21>>, 0, 12, 43)
MaxTimestamp == Moment("Timestamp[ns]", <<2262, 4, 11>>, 23, 47, 16)

SecondOfDay(t) == (t.hour * 60 + t.minute) * 60 + t.second

\* a is earlier than b
Earlier(a, b) ==
    \/ DateLess(a.date, b.date)
    \/ a.date = b.date /\ SecondOfDay(a) < SecondOfDay(b)

\* Whether a whole second lies in the range of nanosecond Timestamps: after
\* the second Timestamp.min falls in, and not after that of Timestamp.max.
InTimestampRange(t) == Earlier(MinTimestamp, t) /\ ~Earlier(MaxTimestamp, t)

\* The same time of day on the day before.
DayBefore(bedtime) ==
    [bedtime EXCEPT !.date = FromOrdinal(ToOrdinal(bedtime.date) - 1)]

\* bedtime - datetime.timedelta(days=1): the time of day is kept.  No
\* datetime, and so no Timestamp, has a year before 1: a datetime that would
\* raises OverflowError, a Timestamp of seconds ValueError.  A Timestamp of
\* nanoseconds that would come before Timestamp.min raises
\* OutOfBoundsDatetime, a ValueError; one of seconds has no such bound.
MinusOneDay(bedtime) ==
    IF ToOrdinal(bedtime.date) - 1 < ToOrdinal(MinDate)
    THEN [raised |-> IF bedtime.type = "datetime" THEN "OverflowError"
                     ELSE "ValueError",
          value |-> bedtime]
    ELSE IF bedtime.type = "Timestamp[ns]" /\ ~InTimestampRange(DayBefore(bedtime))
    THEN [raised |-> "OutOfBoundsDatetime", value |-> bedtime]
    ELSE [raised |-> "none", value |-> DayBefore(bedtime)]

(***************************************************************************)
(* assign_sleep_day(bedtime, cutoff_hour): no check of cutoff_hour, no     *)
(* raise of its own; the chained comparison 0 <= hour < cutoff_hour        *)
(* decides.  The hour of NaT is nan, which no comparison holds of, and its *)
(* date() is NaT.  The result is [raised, value]: the exception of the     *)
(* subtraction, if any, and the date returned.                             *)
(***************************************************************************)
assign_sleep_day(bedtime, cutoff_hour) ==
    IF bedtime.type = "NaT" THEN [raised |-> "none", value |-> NaTDate]
    ELSE IF 0 <= bedtime.hour /\ bedtime.hour < cutoff_hour
    THEN LET before == MinusOneDay(bedtime)
         IN  IF before.raised # "none"
             THEN [raised |-> before.raised, value |-> NoDate]
             ELSE [raised |-> "none", value |-> before.value.date]
    ELSE [raised |-> "none", value |-> bedtime.date]

(***************************************************************************)
(* Direct calls of assign_sleep_day.                                       *)
(***************************************************************************)
Years == FirstYear .. (FirstYear + NumYears - 1)

EdgeDates ==
    {<<y, m, d>> : y \in Years, m \in 1..12, d \in 1..31} \cap
    {date \in Years \X (1..12) \X (1..31) :
        \/ date[3] <= EdgeDays
        \/ /\ date[3] <= DaysInMonth(date[1], date[2])
           /\ date[3] > DaysInMonth(date[1], date[2]) - EdgeDays}

ClockTimes == {<<0, 0>>, <<59, 59>>}

\* The first and last days of the months of Years and the first two dates
\* there are, as datetimes; the first two days of the nanosecond Timestamps,
\* as Timestamps of nanoseconds and of seconds; the first date there is, as a
\* Timestamp of seconds.
Bedtimes ==
    {Moment("datetime", d, h, c[1], c[2]) :
        d \in EdgeDates \cup {MinDate, <<1, 1, 2>>}, h \in 0..23, c \in ClockTimes}
    \cup
    {t \in {Moment("Timestamp[ns]", d, h, c[1], c[2]) :
               d \in {MinTimestamp.date, FromOrdinal(ToOrdinal(MinTimestamp.date) + 1)},
               h \in 0..23, c \in ClockTimes} :
        InTimestampRange(t)}
    \cup
    {Moment("Timestamp[s]", d, h, c[1], c[2]) :
        d \in {MinTimestamp.date, MinDate}, h \in 0..23, c \in ClockTimes}

Cutoffs == (0 - CutoffMargin) .. (23 + CutoffMargin)

NoBedtime == Moment("datetime", NoDate, 0, 0, 0)
NoCall == [called |-> FALSE, bedtime |-> NoBedtime, cutoff_hour |-> 0,
           raised |-> "none", result |-> NoDate]

CallAssignSleepDay ==
    /\ ~asd.called
    /\ \E bedtime \in Bedtimes, cutoff_hour \in Cutoffs :
          asd' = [called |-> TRUE, bedtime |-> bedtime, cutoff_hour |-> cutoff_hour,
                  raised |-> assign_sleep_day(bedtime, cutoff_hour).raised,
                  result |-> assign_sleep_day(bedtime, cutoff_hour).value]
    /\ UNCHANGED <<dir, csv, pc, first_csv_file_found, df, ret, err, plotted, now>>

(***************************************************************************)
(* float64 arithmetic.  A float is [neg, mag, exp]: a sign, a mantissa and *)
(* a binary exponent, the value being mag * 2^exp.  The mantissa is a      *)
(* whole number of exactly MantissaBits bits written in limbs of LimbBits  *)
(* bits, least significant first; zero is the empty mantissa with exponent *)
(* 0, and has a sign.  Every operation computes the exact result and       *)
(* rounds it to MantissaBits significant bits, ties to even, as IEEE 754   *)
(* does.  The exponent has no bounds: nothing computed from whole minutes  *)
(* comes near the subnormal numbers or overflows.                          *)
(***************************************************************************)
LimbBits == 24
LimbBase == 16777216
MantissaBits == 53

Powers ==
    <<1, 2, 4, 8, 16, 32, 64, 128, 256, 512, 1024, 2048, 4096, 8192, 16384,
      32768, 65536, 131072, 262144, 524288, 1048576, 2097152, 4194304,
      8388608, 16777216>>

\* 2^k for k in 0..LimbBits
Pow2(k) == Powers[k + 1]

\* The number of bits of x: the least n with x < 2^n.
RECURSIVE IntBits(_)
IntBits(x) ==
    IF x = 0 THEN 0
    ELSE IF x >= 4096 THEN 12 + IntBits(x \div 4096)
    ELSE IF x >= 64 THEN 6 + IntBits(x \div 64)
    ELSE IF x >= 8 THEN 3 + IntBits(x \div 8)
    ELSE 1 + IntBits(x \div 2)

RECURSIVE Strip(_)
Strip(a) ==
    IF a # <<>> /\ a[Len(a)] = 0 THEN Strip(SubSeq(a, 1, Len(a) - 1)) ELSE a

RECURSIVE IntMag(_)
IntMag(k) == IF k = 0 THEN <<>> ELSE <<k % LimbBase>> \o IntMag(k \div LimbBase)

Limb(a, i) == IF i <= Len(a) THEN a[i] ELSE 0

\* A sequence of limbs given as a function, as a tuple.
Limbs(f) == f \o <<>>

RECURSIVE MagAddFrom(_, _, _, _)
MagAddFrom(a, b, i, carry) ==
    IF i > Len(a) /\ i > Len(b) THEN (IF carry = 0 THEN <<>> ELSE <<carry>>)
    ELSE <<(Limb(a, i) + Limb(b, i) + carry) % LimbBase>>
         \o MagAddFrom(a, b, i + 1, (Limb(a, i) + Limb(b, i) + carry) \div LimbBase)

MagAdd(a, b) == MagAddFrom(a, b, 1, 0)

\* a - b for a >= b
RECURSIVE MagSubFrom(_, _, _, _)
MagSubFrom(a, b, i, borrow) ==
    IF i > Len(a) THEN <<>>
    ELSE IF a[i] - Limb(b, i) - borrow < 0
    THEN <<a[i] - Limb(b, i) - borrow + LimbBase>> \o MagSubFrom(a, b, i + 1, 1)
    ELSE <<a[i] - Limb(b, i) - borrow>> \o MagSubFrom(a, b, i + 1, 0)

MagSub(a, b) == Strip(MagSubFrom(a, b, 1, 0))

RECURSIVE MagLessAt(_, _, _)
MagLessAt(a, b, i) ==
    IF i = 0 THEN FALSE
    ELSE IF a[i] # b[i] THEN a[i] < b[i]
    ELSE MagLessAt(a, b, i - 1)

MagLess(a, b) ==
    IF Len(a) # Len(b) THEN Len(a) < Len(b) ELSE MagLessAt(a, b, Len(a))

\* a * k for a whole number 0 < k < 128
RECURSIVE MagMulFrom(_, _, _, _)
MagMulFrom(a, k, i, carry) ==
    IF i > Len(a) THEN (IF carry = 0 THEN <<>> ELSE <<carry>>)
    ELSE <<(a[i] * k + carry) % LimbBase>>
         \o MagMulFrom(a, k, i + 1, (a[i] * k + carry) \div LimbBase)

MagMulSmall(a, k) == Strip(MagMulFrom(a, k, 1, 0))

\* rest is <<quotient, remainder>> of the limbs below the one that gave digit.
QuotientWith(rest, digit) == <<Append(rest[1], digit), rest[2]>>

\* <<a \div k, a % k>> for a whole number 0 < k < 128, from the top limb down;
\* r is the remainder carried.
RECURSIVE MagDivAt(_, _, _, _)
MagDivAt(a, k, i, r) ==
    IF i > Len(a) THEN <<<<>>, r>>
    ELSE QuotientWith(MagDivAt(a, k, i + 1, (r * LimbBase + a[Len(a) + 1 - i]) % k),
                      (r * LimbBase + a[Len(a) + 1 - i]) \div k)

StripQuotient(d) == <<Strip(d[1]), d[2]>>

MagDivSmall(a, k) == StripQuotient(MagDivAt(a, k, 1, 0))

MagBits(a) ==
    IF a = <<>> THEN 0 ELSE LimbBits * (Len(a) - 1) + IntBits(a[Len(a)])

\* Bit p of a, the lowest being bit 0.
Bit(a, p) == (Limb(a, p \div LimbBits + 1) \div Pow2(p % LimbBits)) % 2

\* Whether a bit of a below bit p is set.
LowBits(a, p) ==
    \E i \in 1..Len(a) :
        /\ (i - 1) * LimbBits < p
        /\ a[i] % Pow2(IF p - (i - 1) * LimbBits > LimbBits THEN LimbBits
                       ELSE p - (i - 1) * LimbBits) # 0

\* a with the bits below bit d cleared.
Truncate(a, d) ==
    Limbs([i \in 1..Len(a) |->
              IF (i - 1) * LimbBits >= d THEN a[i]
              ELSE IF i * LimbBits <= d THEN 0
              ELSE a[i] - (a[i] % Pow2(d - (i - 1) * LimbBits))])

\* 2^d
PowMag(d) == Limbs([i \in 1..(d \div LimbBits) |-> 0]) \o <<Pow2(d % LimbBits)>>

\* a * 2^s
ShiftLeft(a, s) ==
    IF s = 0 THEN a
    ELSE Limbs([i \in 1..(s \div LimbBits) |-> 0])
         \o Strip(Limbs([i \in 1..(Len(a) + 1) |->
               (Limb(a, i) % Pow2(LimbBits - (s % LimbBits))) * Pow2(s % LimbBits)
               + (IF i > 1 THEN a[i - 1] \div Pow2(LimbBits - (s % LimbBits)) ELSE 0)]))

\* a \div 2^s
ShiftRight(a, s) ==
    IF s = 0 THEN a
    ELSE Strip(Limbs([i \in 1..(Len(a) - (s \div LimbBits)) |->
               a[i + (s \div LimbBits)] \div Pow2(s % LimbBits)
               + (Limb(a, i + (s \div LimbBits) + 1) % Pow2(s % LimbBits))
                 * Pow2(LimbBits - (s % LimbBits))]))

\* a with its last d bits rounded away to the nearest multiple of 2^d, a tie
\* to the even one.
RoundBits(a, d) ==
    IF Bit(a, d - 1) = 1 /\ (LowBits(a, d - 1) \/ Bit(a, d) = 1)
    THEN MagAdd(Truncate(a, d), PowMag(d))
    ELSE Truncate(a, d)

\* a of n bits rounded to MantissaBits significant bits.
RoundTo(a, n) == IF n <= MantissaBits THEN a ELSE RoundBits(a, n - MantissaBits)

\* The whole number a rounded to MantissaBits significant bits, ties to even.
RoundMag(a) == RoundTo(a, MagBits(a))

Float(neg, mag, exp) == [neg |-> neg, mag |-> mag, exp |-> exp]

FZero == Float(FALSE, <<>>, 0)

\* NaN, not a number: the empty mantissa with exponent 1 stands for it.
NaN == Float(FALSE, <<>>, 1)

IsNaN(x) == x.mag = <<>> /\ x.exp # 0

\* a of n bits, times 2^e, with the mantissa brought to MantissaBits bits; a
\* has no more than that many significant bits.
NormalOf(neg, a, e, n) ==
    IF n = 0 THEN Float(neg, <<>>, 0)
    ELSE IF n >= MantissaBits
    THEN Float(neg, ShiftRight(a, n - MantissaBits), e + (n - MantissaBits))
    ELSE Float(neg, ShiftLeft(a, MantissaBits - n), e - (MantissaBits - n))

Normal(neg, a, e) == NormalOf(neg, a, e, MagBits(a))

\* The float64 nearest to a * 2^e, negated when neg.
Nearest(neg, a, e) == Normal(neg, RoundMag(a), e)

\* A whole number as a float64
FFromInt(k) == Nearest(k < 0, IntMag(IF k < 0 THEN 0 - k ELSE k), 0)

FNeg(x) == Float(~x.neg, x.mag, x.exp)

\* a * 2^e plus or minus b * 2^e, by the signs.
AddMags(xneg, a, yneg, b, e) ==
    IF xneg = yneg THEN Float(xneg, MagAdd(a, b), e)
    ELSE IF MagLess(a, b) THEN Float(yneg, MagSub(b, a), e)
    ELSE IF MagLess(b, a) THEN Float(xneg, MagSub(a, b), e)
    ELSE FZero

\* x + y with both mantissas in units of 2^e
AddAt(x, y, e) ==
    AddMags(x.neg, ShiftLeft(x.mag, x.exp - e), y.neg, ShiftLeft(y.mag, y.exp - e), e)

\* The exact sum of two numbers, as a float without rounding: its mantissa
\* may have any number of bits.
ExactAdd(x, y) ==
    IF x.mag = <<>> /\ y.mag = <<>> THEN Float(x.neg /\ y.neg, <<>>, 0)
    ELSE IF x.mag = <<>> THEN y
    ELSE IF y.mag = <<>> THEN x
    ELSE AddAt(x, y, IF x.exp < y.exp THEN x.exp ELSE y.exp)

FRound(x) == Nearest(x.neg, x.mag, x.exp)

FAdd(x, y) == IF IsNaN(x) \/ IsNaN(y) THEN NaN ELSE FRound(ExactAdd(x, y))

FSub(x, y) == FAdd(x, FNeg(y))

\* x == y: the two zeros are equal, NaN equals nothing.
FEq(x, y) ==
    /\ ~IsNaN(x) /\ ~IsNaN(y)
    /\ (x.mag = <<>> /\ y.mag = <<>>) \/ x = y

\* |x| < |y| for x and y other than zero
AbsLess(x, y) == x.exp < y.exp \/ (x.exp = y.exp /\ MagLess(x.mag, y.mag))

\* x < y: false of NaN.
FLess(x, y) ==
    IF IsNaN(x) \/ IsNaN(y) THEN FALSE
    ELSE IF x.mag = <<>> THEN y.mag # <<>> /\ ~y.neg
    ELSE IF y.mag = <<>> THEN x.neg
    ELSE IF x.neg # y.neg THEN x.neg
    ELSE IF x.neg THEN AbsLess(y, x) ELSE AbsLess(x, y)

\* x * k for a whole number 0 < k < 128
FMulInt(x, k) ==
    IF IsNaN(x) THEN NaN ELSE Nearest(x.neg, MagMulSmall(x.mag, k), x.exp)

\* Twice the quotient d[1], plus one when the remainder d[2] is not zero: the
\* last bit stands for what the division left over.
WithSticky(d) == MagAdd(MagMulSmall(d[1], 2), IF d[2] = 0 THEN <<>> ELSE <<1>>)

\* x / k for a whole number 0 < k < 128: the mantissa is divided with LimbBits
\* more bits, which leaves the quotient more than MantissaBits + 1 of them.
FDivInt(x, k) ==
    IF IsNaN(x) THEN NaN
    ELSE Nearest(x.neg, WithSticky(MagDivSmall(<<0>> \o x.mag, k)),
                 x.exp - LimbBits - 1)

(***************************************************************************)
(* The CSV export.  A Start Time cell is a timestamp written with or       *)
(* without its seconds field, or some other text; a Time Asleep cell is a  *)
(* whole number of minutes, or some other text.  The text may be one of    *)
(* the markers pandas reads as a missing value.                            *)
(***************************************************************************)
StartCell(form, date, hour, minute, second) ==
    [form |-> form,
     stamp |-> [date |-> date, hour |-> hour, minute |-> minute, second |-> second]]

MinutesCell(value) == [form |-> "number", value |-> value]

TextCell(text) == [form |-> "text", text |-> text]

\* The texts pd.read_csv takes for a missing value by default.
STR_NA_VALUES ==
    {"", "#N/A", "#N/A N/A", "#NA", "-1.#IND", "-1.#QNAN", "-NaN", "-nan",
     "1.#IND", "1.#QNAN", "<NA>", "N/A", "NA", "NULL", "NaN", "None", "n/a",
     "nan", "null"}

\* A missing value in a column of the table.
NaNCell == [form |-> "NaN"]

CsvRow(start, minutes) == [Start_Time |-> start, Time_Asleep |-> minutes]

\* A column as a sequence of values (the function written out as a tuple).
Column(f) == f \o <<>>

\* One cell as pd.read_csv reads it: a missing-value marker becomes NaN.
ReadCell(cell) ==
    IF cell.form = "text" /\ cell.text \in STR_NA_VALUES THEN NaNCell ELSE cell

\* pd.read_csv: one column per header, one entry per row, in file order.
read_csv(rows) ==
    [Start_Time |-> Column([i \in 1..Len(rows) |-> ReadCell(rows[i].Start_Time)]),
     Time_Asleep |-> Column([i \in 1..Len(rows) |-> ReadCell(rows[i].Time_Asleep)])]

\* df[name] = values: the column is added to, or replaced in, the same object.
SetColumn(frame, name, values) ==
    [c \in (DOMAIN frame) \cup {name} |-> IF c = name THEN values ELSE frame[c]]

(***************************************************************************)
(* augment_data, line by line.                                             *)
(***************************************************************************)
\* The texts pd.to_datetime takes for NaT; read_csv has turned some of them
\* into NaN already.
nat_strings == {"NaT", "nat", "NAT", "nan", "NaN", "NAN"}

\* The texts pd.to_datetime takes for the current time.
NowStrings == {"now", "today"}

\* pd.to_datetime(format="mixed") of one cell that it can parse: a Timestamp
\* of nanoseconds, an absent seconds field read as 0; NaT for a missing value
\* and for the texts that stand for NaT; the time of the run for "now" and
\* "today".
ParseStartTime(cell) ==
    IF cell.form = "NaN" THEN NaT
    ELSE IF cell.form = "text"
    THEN (IF cell.text \in nat_strings THEN NaT ELSE now)
    ELSE Moment("Timestamp[ns]", cell.stamp.date, cell.stamp.hour, cell.stamp.minute,
                IF cell.form = "HH:MM" THEN 0 ELSE cell.stamp.second)

\* What parsing one cell raises: ValueError for text that is no timestamp,
\* OutOfBoundsDatetime for a time no Timestamp of nanoseconds can hold.
ParseError(cell) ==
    IF cell.form = "NaN" THEN "none"
    ELSE IF cell.form = "text"
    THEN (IF cell.text \in nat_strings \cup NowStrings THEN "none" ELSE "ValueError")
    ELSE IF ~InTimestampRange(ParseStartTime(cell)) THEN "OutOfBoundsDatetime"
    ELSE "none"

\* The exception of the first entry that raised one.
FirstRaised(raised) ==
    raised[CHOOSE i \in DOMAIN raised :
              raised[i] # "none" /\ \A j \in 1..(i - 1) : raised[j] = "none"]

\* pd.to_datetime(df["Start Time"], format="mixed"): the cells are parsed in
\* row order and the first bad one raises for the whole column.
to_datetime(column) ==
    IF \E i \in DOMAIN column : ParseError(column[i]) # "none"
    THEN [raised |-> FirstRaised(Column([i \in 1..Len(column) |->
                                           ParseError(column[i])])),
          values |-> <<>>]
    ELSE [raised |-> "none",
          values |-> Column([i \in 1..Len(column) |-> ParseStartTime(column[i])])]

\* df["date"].apply(assign_sleep_day): cutoff_hour takes its default; the
\* first call that raises ends the apply.
Applied(called) ==
    IF \E i \in DOMAIN called : called[i].raised # "none"
    THEN [raised |-> FirstRaised(Column([i \in 1..Len(called) |-> called[i].raised])),
          values |-> <<>>]
    ELSE [raised |-> "none",
          values |-> Column([i \in 1..Len(called) |-> called[i].value])]

SleepDates(stamps) ==
    Applied(Column([i \in 1..Len(stamps) |->
                      assign_sleep_day(stamps[i], DefaultCutoffHour)]))

\* One entry of the numeric column over 60: NaN for a missing value.
HoursOfCell(cell) ==
    IF cell.form = "NaN" THEN NaN ELSE FDivInt(FFromInt(cell.value), MinutesPerHour)

\* The hours added to what an earlier call left in the column.
SleepHoursAccumulating(frame) ==
    IF \E i \in DOMAIN frame.Time_Asleep : frame.Time_Asleep[i].form = "text"
    THEN [raised |-> "TypeError", values |-> <<>>]
    ELSE [raised |-> "none",
          values |-> Column([i \in 1..Len(frame.Time_Asleep) |->
                        IF "sleep_hours" \in DOMAIN frame
                        THEN FAdd(frame.sleep_hours[i], HoursOfCell(frame.Time_Asleep[i]))
                        ELSE HoursOfCell(frame.Time_Asleep[i])])]

\* df["Time Asleep(min)"] / 60.  A column of numbers and missing values is
\* int64 or float64 and is divided in float64, NaN staying NaN; a column with
\* any other text in it is of dtype object and the division raises.
SleepHours(frame) ==
    IF \E i \in DOMAIN frame.Time_Asleep : frame.Time_Asleep[i].form = "text"
    THEN [raised |-> "TypeError", values |-> <<>>]
    ELSE [raised |-> "none",
          values |-> Column([i \in 1..Len(frame.Time_Asleep) |->
                        HoursOfCell(frame.Time_Asleep[i])])]

RECURSIVE SortDates(_)
SortDates(S) ==
    IF S = {} THEN <<>>
    ELSE LET lo == CHOOSE d \in S : \A e \in S : e = d \/ DateLess(d, e)
         IN  <<lo>> \o SortDates(S \ {lo})

\* The group keys in order of first appearance (groupby(sort=False)).
RECURSIVE FirstSeen(_, _)
FirstSeen(dates, i) ==
    IF i = 0 THEN <<>>
    ELSE LET before == FirstSeen(dates, i - 1)
         IN  IF \E j \in 1..(i - 1) : dates[j] = dates[i]
             THEN before ELSE Append(before, dates[i])

GroupKeysUnsorted(dates) == FirstSeen(dates, Len(dates))

\* The keys of groupby("date"): each distinct date once, ascending
\* (sort=True), NaT left out (dropna=True).
GroupKeys(dates) == SortDates({dates[i] : i \in DOMAIN dates} \ {NaTDate})

\* One step of compensated summation, as pandas' group and window sums do it:
\* acc is [sum, comp], the running sum and the error carried along.
KahanCarry(sum, y, t) == [sum |-> t, comp |-> FSub(FSub(t, sum), y)]

KahanStep(sum, y) == KahanCarry(sum, y, FAdd(sum, y))

KahanAdd(acc, val) == KahanStep(acc.sum, FSub(val, acc.comp))

NoSum == [sum |-> FZero, comp |-> FZero]

\* The rows of one group summed in row order, NaN skipped.
RECURSIVE SumWhere(_, _, _, _)
SumWhere(dates, values, key, i) ==
    IF i = 0 THEN NoSum
    ELSE IF dates[i] = key /\ ~IsNaN(values[i])
         THEN KahanAdd(SumWhere(dates, values, key, i - 1), values[i])
         ELSE SumWhere(dates, values, key, i - 1)

\* Each group reduced to its first record (groupby(...).first()).
GroupFirst(dates, values, key) ==
    values[CHOOSE i \in DOMAIN dates :
              dates[i] = key /\ \A j \in 1..(i - 1) : dates[j] # key]

\* ["sleep_hours"].sum() of one group
GroupSum(dates, values, key) == SumWhere(dates, values, key, Len(dates)).sum

\* One row per key: the key and the sum of its group.
GroupsOf(frame, keys) ==
    [date |-> keys,
     sleep_hours |-> Column([k \in 1..Len(keys) |->
                        GroupSum(frame.date, frame.sleep_hours, keys[k])])]

\* df.groupby("date", as_index=False)["sleep_hours"].sum()
GroupBySum(frame) == GroupsOf(frame, GroupKeys(frame.date))

\* rolling(window, min_periods=1) over rows 1..i: the window takes in row i and
\* lets go of row i - window, each with its own compensation; same counts the
\* equal values taken in last, neg the negative values in the window.
NoWindow ==
    [nobs |-> 0, sum |-> FZero, comp_add |-> FZero, comp_remove |-> FZero,
     same |-> 0, prev |-> FZero, neg |-> 0]

WindowAdded(w, val, acc) ==
    [w EXCEPT !.nobs = w.nobs + 1,
              !.sum = acc.sum,
              !.comp_add = acc.comp,
              !.same = IF FEq(val, w.prev) THEN w.same + 1 ELSE 1,
              !.prev = val,
              !.neg = w.neg + (IF val.neg THEN 1 ELSE 0)]

\* NaN is neither taken in nor let go.
WindowAdd(w, val) ==
    IF IsNaN(val) THEN w
    ELSE WindowAdded(w, val, KahanAdd([sum |-> w.sum, comp |-> w.comp_add], val))

WindowRemoved(w, val, acc) ==
    [w EXCEPT !.nobs = w.nobs - 1,
              !.sum = acc.sum,
              !.comp_remove = acc.comp,
              !.neg = w.neg - (IF val.neg THEN 1 ELSE 0)]

WindowRemove(w, val) ==
    IF IsNaN(val) THEN w
    ELSE WindowRemoved(w, val,
                       KahanAdd([sum |-> w.sum, comp |-> w.comp_remove], FNeg(val)))

\* The window of row i from those of the rows before: set up at the first row,
\* moved on from the last one after.
WindowAt(last, values, window, i) ==
    WindowAdd(IF i > window THEN WindowRemove(last, values[i - window]) ELSE last,
              values[i])

Slide(before, values, window, i) ==
    Append(before,
           WindowAt(IF i = 1 THEN [NoWindow EXCEPT !.prev = values[1]]
                    ELSE before[i - 1],
                    values, window, i))

\* The windows of rows 1..i, one after another.
RECURSIVE Windows(_, _, _)
Windows(values, window, i) ==
    IF i = 0 THEN <<>>
    ELSE Slide(Windows(values, window, i - 1), values, window, i)

\* calc_sum: NaN for a window without a value (min_periods=1); a window of
\* equal values is their product, free of summation error.
WindowSum(w) ==
    IF w.nobs = 0 THEN NaN
    ELSE IF w.same >= w.nobs THEN FMulInt(w.prev, w.nobs)
    ELSE w.sum

\* calc_mean: likewise, and a mean of the wrong sign is 0; result is the sum
\* over the number of values.
MeanOf(w, result) ==
    IF w.nobs = 0 THEN NaN
    ELSE IF w.same >= w.nobs THEN w.prev
    ELSE IF w.neg = 0 /\ FLess(result, FZero) THEN FZero
    ELSE IF w.neg = w.nobs /\ FLess(FZero, result) THEN FZero
    ELSE result

WindowMean(w) == MeanOf(w, IF w.nobs = 0 THEN NaN ELSE FDivInt(w.sum, w.nobs))

WindowSums(w) == Column([i \in 1..Len(w) |-> WindowSum(w[i])])

WindowMeans(w) == Column([i \in 1..Len(w) |-> WindowMean(w[i])])

WindowMeansOver(w, window) == Column([i \in 1..Len(w) |-> FDivInt(w[i].sum, window)])

\* A running total that never lets a row go (cumsum).
RECURSIVE CumSum(_, _)
CumSum(values, i) ==
    IF i = 0 THEN FZero ELSE FAdd(CumSum(values, i - 1), values[i])

ExpandingSum(values, window) == Column([i \in 1..Len(values) |-> CumSum(values, i)])

\* .rolling(window, min_periods=1).sum()
RollingSum(values, window) ==
    WindowSums(Windows(values, window, Len(values)))

\* The windowed sum divided by the window size whatever the number of rows in it.
RollingMeanFullWindow(values, window) ==
    WindowMeansOver(Windows(values, window, Len(values)), window)

\* .rolling(window, min_periods=1).mean()
RollingMean(values, window) ==
    WindowMeans(Windows(values, window, Len(values)))

\* lambda x: "lightcoral" if x < TARGET_SLEEP else "lightgreen"
Color(x) == IF FLess(x, FFromInt(TARGET_SLEEP)) THEN "lightcoral" ELSE "lightgreen"

NoOutput ==
    [date |-> <<>>, sleep_hours |-> <<>>, Sleep_Delta |-> <<>>,
     rolling_14d_debt |-> <<>>, color |-> <<>>, rolling_7d_sleep |-> <<>>]

\* Lines 63 to 72: the new table built from the grouped one.
\* Lines 65 to 72; delta is the Sleep Delta column.
Derived(grouped, delta) ==
    [date |-> grouped.date,
     sleep_hours |-> grouped.sleep_hours,
     Sleep_Delta |-> delta,
     rolling_14d_debt |->
        RollingSum(Column([k \in 1..Len(delta) |-> FNeg(delta[k])]), DebtWindow),
     color |-> Column([k \in 1..Len(grouped.date) |-> Color(grouped.sleep_hours[k])]),
     rolling_7d_sleep |-> RollingMean(grouped.sleep_hours, SleepWindow)]

Derive(grouped) ==
    Derived(grouped,
            Column([k \in 1..Len(grouped.date) |->
                      FSub(grouped.sleep_hours[k], FFromInt(TARGET_SLEEP))]))

\* augment_data(df): frame is the caller's table after the call (the date and
\* sleep_hours columns are written into it), raised the exception if any, out
\* the table returned.
\* Lines 63 to 72, on the table with its two new columns.
Summarise(full) ==
    [frame |-> full, raised |-> "none", out |-> Derive(GroupBySum(full))]

\* Line 60, on the table with its date column; hours is the quotient column.
Divided(dated, hours) ==
    IF hours.raised # "none"
    THEN [frame |-> dated, raised |-> hours.raised, out |-> NoOutput]
    ELSE Summarise(SetColumn(dated, "sleep_hours", hours.values))

DivideMinutes(dated) == Divided(dated, SleepHours(dated))

\* Line 59; dates is the column of sleep-nights.
Assigned(frame, parsed, dates) ==
    IF dates.raised # "none"
    THEN [frame |-> SetColumn(frame, "date", parsed.values),
          raised |-> dates.raised, out |-> NoOutput]
    ELSE DivideMinutes(SetColumn(frame, "date", dates.values))

\* Line 58; parsed is the column of timestamps.
Parsed(frame, parsed) ==
    IF parsed.raised # "none"
    THEN [frame |-> frame, raised |-> parsed.raised, out |-> NoOutput]
    ELSE Assigned(frame, parsed, SleepDates(parsed.values))

augment_data(frame) == Parsed(frame, to_datetime(frame.Start_Time))

(***************************************************************************)
(* get_file and the main script.  A file name, an extension and a pattern  *)
(* are sequences of characters.                                            *)
(***************************************************************************)
NoFile == <<>>

\* The characters of names and patterns, in the order of their code points.
Chars ==
    <<"!", "*", "-", ".", "0", "1", "2", "3", "4", "5", "6", "7", "8", "9", "?",
      "A", "B", "C", "D", "E", "F", "G", "H", "I", "J", "K", "L", "M", "N", "O",
      "P", "Q", "R", "S", "T", "U", "V", "W", "X", "Y", "Z", "[", "]", "^", "_",
      "a", "b", "c", "d", "e", "f", "g", "h", "i", "j", "k", "l", "m", "n", "o",
      "p", "q", "r", "s", "t", "u", "v", "w", "x", "y", "z">>

Ord(c) == CHOOSE i \in DOMAIN Chars : Chars[i] = c

\* The first ] of pat from position j on, 0 if there is none.
RECURSIVE ClassScan(_, _)
ClassScan(pat, j) ==
    IF j > Len(pat) THEN 0
    ELSE IF pat[j] = "]" THEN j
    ELSE ClassScan(pat, j + 1)

\* Where the members of the class opened by pat[1] = "[" begin: after a
\* leading "!".
ClassStart(pat) == IF Len(pat) >= 2 /\ pat[2] = "!" THEN 3 ELSE 2

\* The ] that closes the class opened by pat[1] = "[", 0 if none does: a ]
\* that comes first in the class is a member of it.
ClassEnd(pat) ==
    ClassScan(pat, IF ClassStart(pat) <= Len(pat) /\ pat[ClassStart(pat)] = "]"
                   THEN ClassStart(pat) + 1 ELSE ClassStart(pat))

\* Whether c is among the members written from position p of body on: x-y is
\* the range of the characters from x to y, empty when x comes after y; a
\* hyphen that comes first or last is a member.
RECURSIVE InClass(_, _, _)
InClass(c, body, p) ==
    IF p > Len(body) THEN FALSE
    ELSE IF p + 2 <= Len(body) /\ body[p + 1] = "-"
    THEN \/ Ord(body[p]) <= Ord(c) /\ Ord(c) <= Ord(body[p + 2])
         \/ InClass(c, body, p + 3)
    ELSE body[p] = c \/ InClass(c, body, p + 1)

\* Whether c matches the class whose text between the brackets is stuff: a
\* leading ! turns the class into its complement.
ClassMatch(c, stuff) ==
    IF stuff[1] = "!" THEN ~InClass(c, stuff, 2) ELSE InClass(c, stuff, 1)

\* fnmatch: * stands for any run of characters, ? for any one character,
\* [seq] for one character of seq and [!seq] for one that is not; a [ that
\* no ] closes, and every other character, stands for itself.
RECURSIVE FnMatch(_, _)
FnMatch(name, pat) ==
    IF pat = <<>> THEN name = <<>>
    ELSE IF Head(pat) = "*"
         THEN FnMatch(name, Tail(pat)) \/ (name # <<>> /\ FnMatch(Tail(name), pat))
    ELSE IF name = <<>> THEN FALSE
    ELSE IF Head(pat) = "[" /\ ClassEnd(pat) # 0
         THEN /\ ClassMatch(Head(name), SubSeq(pat, 2, ClassEnd(pat) - 1))
              /\ FnMatch(Tail(name), SubSeq(pat, ClassEnd(pat) + 1, Len(pat)))
    ELSE (Head(pat) = "?" \/ Head(pat) = Head(name)) /\ FnMatch(Tail(name), Tail(pat))

IsHidden(name) == name # <<>> /\ Head(name) = "."

\* glob.glob(f"*.{extension}"): the names the pattern matches, those that begin
\* with a dot left out (the pattern does not begin with one); their order is
\* the file system's.
Glob(files, extension) ==
    {f \in files : ~IsHidden(f) /\ FnMatch(f, <<"*", ".">> \o extension)}

\* get_file(extension): element 0 of the glob list, whichever file that is;
\* IndexError on an empty list.
get_file(files, extension) ==
    IF Glob(files, extension) = {}
    THEN [raised |-> "IndexError", paths |-> {}]
    ELSE [raised |-> "none", paths |-> Glob(files, extension)]

NoTable == [Start_Time |-> <<>>, Time_Asleep |-> <<>>]


(***************************************************************************)
(* The environment: the working directory, and the sessions recorded into  *)
(* the export before the run.  The sessions are of the years from          *)
(* FirstYear on, and of the first days a pandas Timestamp can hold.        *)
(***************************************************************************)
Csv == <<"c", "s", "v">>

CsvFile == <<"s", "l", "e", "e", "p", ".", "c", "s", "v">>
HiddenCsvFile == <<".">> \o CsvFile

Files ==
    {CsvFile, HiddenCsvFile,
     <<"n", "a", "p", "s", ".", "c", "s", "v">>,
     <<"n", "o", "t", "e", "s", ".", "t", "x", "t">>}

NewYearsEve == <<FirstYear, 12, 31>>
NewYearsDay == <<FirstYear + 1, 1, 1>>

\* Times the clock may show when the run starts: before and after the hour
\* that ends a sleep-night, on the day after NewYearsDay.
RunTimes ==
    {Moment("Timestamp[ns]", <<FirstYear + 1, 1, 2>>, 1, 30, 15),
     Moment("Timestamp[ns]", <<FirstYear + 1, 1, 2>>, 4, 0, 30)}

\* Short exports: sessions around midnight of a year's end, in any order; the
\* sessions of the middle night can add up to TARGET_SLEEP hours.
AugRows ==
    {CsvRow(StartCell("HH:MM", NewYearsEve, 3, 59, 0), MinutesCell(355)),
     CsvRow(StartCell("HH:MM:SS", NewYearsEve, 4, 0, 30), MinutesCell(457)),
     CsvRow(StartCell("HH:MM:SS", NewYearsEve, 4, 0, 30), MinutesCell(22)),
     CsvRow(StartCell("HH:MM", NewYearsDay, 1, 30, 0), MinutesCell(1)),
     CsvRow(StartCell("HH:MM", NewYearsDay, 1, 30, 0), MinutesCell(125)),
     CsvRow(StartCell("HH:MM:SS", NewYearsDay, 4, 0, 30), MinutesCell(355)),
     CsvRow(StartCell("HH:MM:SS", NewYearsDay, 4, 0, 30), MinutesCell(480))}

\* Exports of the whole run: well-formed rows; rows with text that is neither
\* a timestamp, a number nor a missing-value marker; rows with a cell left
\* empty or marked n/a or NaT; a row begun "now"; and rows of the first day of the nanosecond
\* Timestamps, one before Timestamp.min, one after it whose sleep-night would
\* be the day before.
MainRows ==
    {CsvRow(StartCell("HH:MM", NewYearsDay, 1, 30, 0), MinutesCell(125)),
     CsvRow(StartCell("HH:MM:SS", NewYearsDay, 4, 0, 30), MinutesCell(480)),
     CsvRow(TextCell("abc"), MinutesCell(125)),
     CsvRow(StartCell("HH:MM:SS", NewYearsEve, 4, 0, 30), TextCell("abc")),
     CsvRow(TextCell(""), MinutesCell(355)),
     CsvRow(TextCell("NaT"), MinutesCell(22)),
     CsvRow(TextCell("now"), MinutesCell(457)),
     CsvRow(StartCell("HH:MM:SS", NewYearsEve, 4, 0, 30), TextCell("n/a")),
     CsvRow(StartCell("HH:MM", MinTimestamp.date, 0, 12, 0), MinutesCell(125)),
     CsvRow(StartCell("HH:MM", MinTimestamp.date, 1, 30, 0), MinutesCell(480))}

RecordSession(rows, limit) ==
    /\ pc = "recording"
    /\ Glob(dir, Csv) # {}
    /\ Len(csv) < limit
    /\ \E r \in rows : csv' = Append(csv, r)
    /\ UNCHANGED <<dir, pc, first_csv_file_found, df, ret, err, plotted, asd, now>>

RecordMainSession == RecordSession(MainRows, MaxRows)

RecordAugSession == RecordSession(AugRows, MaxRows)

\* Long exports: one evening session per night from FirstNight on, except for
\* at most MaxIrregular rows: a night after a skipped one, or a session begun
\* after midnight that belongs to the night before.  Regular nights come in
\* pairs of equal length, below and above TARGET_SLEEP hours.
FirstNight == <<FirstYear, 12, 20>>

RegularMinutes(i) == 455 + 13 * (((i + 1) \div 2) % 5)

NightOrdinal(rows, i) ==
    IF i = 0 THEN ToOrdinal(FirstNight) - 1
    ELSE ToOrdinal(assign_sleep_day(ParseStartTime(rows[i].Start_Time),
                                    DefaultCutoffHour).value)

IsRegular(rows, i) ==
    /\ rows[i].Start_Time.stamp.hour = 22
    /\ rows[i].Time_Asleep.value = RegularMinutes(i)
    /\ NightOrdinal(rows, i) = NightOrdinal(rows, i - 1) + 1

IrregularCount(rows) == Cardinality({i \in DOMAIN rows : ~IsRegular(rows, i)})

NightRow(rows, kind) ==
    LET i == Len(rows) + 1
        last == NightOrdinal(rows, Len(rows))
    IN  CASE kind = "regular" ->
               CsvRow(StartCell("HH:MM", FromOrdinal(last + 1), 22, 0, 0),
                      MinutesCell(RegularMinutes(i)))
          [] kind = "skip" ->
               CsvRow(StartCell("HH:MM", FromOrdinal(last + 2), 22, 0, 0),
                      MinutesCell(RegularMinutes(i)))
          [] kind = "late" ->
               CsvRow(StartCell("HH:MM:SS", FromOrdinal(last + 1), 1, 30, 15),
                      MinutesCell(61))

RecordNight ==
    /\ pc = "recording"
    /\ Glob(dir, Csv) # {}
    /\ Len(csv) < MaxNights
    /\ \E kind \in {"regular", "skip", "late"} :
          /\ kind = "regular" \/ IrregularCount(csv) < MaxIrregular
          /\ kind = "late" => csv # <<>>
          /\ csv' = Append(csv, NightRow(csv, kind))
    /\ UNCHANGED <<dir, pc, first_csv_file_found, df, ret, err, plotted, asd, now>>

(***************************************************************************)
(* The main script, one action per statement.                              *)
(***************************************************************************)
\* first_csv_file_found = get_file("csv"); the run starts on an export that
\* holds at least one session, or in a directory without any export.
GetFile ==
    /\ pc = "recording"
    /\ Glob(dir, Csv) = {} \/ csv # <<>>
    /\ LET r == get_file(dir, Csv)
       IN  IF r.raised # "none"
           THEN /\ err' = r.raised
                /\ pc' = "aborted"
                /\ UNCHANGED first_csv_file_found
           ELSE /\ \E f \in r.paths : first_csv_file_found' = f
                /\ pc' = "found"
                /\ UNCHANGED err
    /\ UNCHANGED <<dir, csv, df, ret, plotted, asd, now>>

\* df = pd.read_csv(first_csv_file_found)
ReadCsv ==
    /\ pc = "found"
    /\ df' = read_csv(csv)
    /\ pc' = "loaded"
    /\ UNCHANGED <<dir, csv, first_csv_file_found, ret, err, plotted, asd, now>>

\* df = augment_data(df).  The variable df of the model stays the table object
\* that was passed in; the table returned is appended to ret.
Returned(r) ==
    /\ df' = r.frame
    /\ IF r.raised # "none"
       THEN /\ err' = r.raised
            /\ pc' = "aborted"
            /\ UNCHANGED ret
       ELSE /\ ret' = Append(ret, r.out)
            /\ pc' = "augmented"
            /\ UNCHANGED err
    /\ UNCHANGED <<dir, csv, first_csv_file_found, plotted, asd, now>>

CallAugment == Returned(augment_data(df))

AugmentData ==
    /\ pc = "loaded"
    /\ CallAugment

\* A further call of augment_data with the very table object of the first.
AugmentAgain ==
    /\ pc = "augmented"
    /\ Len(ret) < MaxCalls
    /\ CallAugment

\* plot_sleep_data(df)
PlotSleepData ==
    /\ pc = "augmented"
    /\ plotted' = Append(plotted, ret[Len(ret)])
    /\ pc' = "plotted"
    /\ UNCHANGED <<dir, csv, first_csv_file_found, df, ret, err, asd, now>>

InitRun ==
    /\ csv = <<>>
    /\ pc = "recording"
    /\ first_csv_file_found = NoFile
    /\ df = NoTable
    /\ ret = <<>>
    /\ err = "none"
    /\ plotted = <<>>
    /\ asd = NoCall

Init == InitRun /\ dir \in SUBSET Files /\ now \in RunTimes

Next == RecordMainSession \/ GetFile \/ ReadCsv \/ AugmentData \/ PlotSleepData

Spec == Init /\ [][Next]_vars

\* A run on an export that does not ask for the time.
InitAugment ==
    InitRun /\ dir = {CsvFile} /\ now = Moment("Timestamp[ns]", <<FirstYear + 1, 1, 2>>, 4, 0, 30)

NextAugment == RecordAugSession \/ GetFile \/ ReadCsv \/ AugmentData \/ AugmentAgain

SpecAugment == InitAugment /\ [][NextAugment]_vars

NextNights == RecordNight \/ GetFile \/ ReadCsv \/ AugmentData

SpecNights == InitAugment /\ [][NextNights]_vars

InitAssign == InitAugment

NextAssign == CallAssignSleepDay

SpecAssign == InitAssign /\ [][NextAssign]_vars

(***************************************************************************)
(* Properties.  Helper definitions state the expected values from the      *)
(* export itself, in whole minutes, and from the returned table by exact   *)
(* arithmetic, independently of the pipeline.                              *)
(***************************************************************************)
PreviousCalendarDate(date) ==
    IF date[3] > 1 THEN <<date[1], date[2], date[3] - 1>>
    ELSE IF date[2] > 1 THEN <<date[1], date[2] - 1, DaysInMonth(date[1], date[2] - 1)>>
    ELSE <<date[1] - 1, 12, 31>>

\* The sleep-night of a well-formed row of the export.
NightOf(row) ==
    assign_sleep_day(ParseStartTime(row.Start_Time), DefaultCutoffHour).value

RowsOn(rows, date) == {i \in DOMAIN rows : NightOf(rows[i]) = date}

RECURSIVE MinutesOn(_, _, _)
MinutesOn(rows, date, i) ==
    IF i = 0 THEN 0
    ELSE MinutesOn(rows, date, i - 1)
         + (IF NightOf(rows[i]) = date THEN rows[i].Time_Asleep.value ELSE 0)

Max(a, b) == IF a > b THEN a ELSE b

\* The sum of f[lo..hi] without any rounding.
RECURSIVE ExactSum(_, _, _)
ExactSum(f, lo, hi) ==
    IF lo > hi THEN FZero ELSE ExactAdd(f[hi], ExactSum(f, lo, hi - 1))

\* k times x without any rounding.
ExactTimes(x, k) == Float(x.neg, MagMulSmall(x.mag, k), x.exp)

\* x and y differ by less than 2^-40: by rounding error and no more, a minute
\* being more than 2^-6 hours.
NearZero(d) == d.mag = <<>> \/ MagBits(d.mag) + d.exp <= 0 - 40

Near(x, y) == NearZero(ExactAdd(x, FNeg(y)))

\* TARGET_SLEEP - hours, row by row, without any rounding.
DebtOf(hours) ==
    Column([j \in 1..Len(hours) |-> ExactAdd(FFromInt(TARGET_SLEEP), FNeg(hours[j]))])

\* Every sums[k] is the sum of the last window values up to row k, or of all
\* of them when there are fewer, within rounding error.
SumsOver(sums, values, window) ==
    \A k \in DOMAIN sums :
        Near(sums[k], ExactSum(values, Max(1, k - (window - 1)), k))

\* The float64 quotient minutes / 60.
HoursOf(minutes) == FDivInt(FFromInt(minutes), MinutesPerHour)

TargetMinutes == TARGET_SLEEP * MinutesPerHour

\* A cell of some row cannot be parsed: a start time that is no timestamp, or
\* none a Timestamp can hold, or minutes that are no number.
Malformed(rows) ==
    \E i \in DOMAIN rows :
        \/ rows[i].Time_Asleep.form = "text"
        \/ IF rows[i].Start_Time.form = "text"
           THEN rows[i].Start_Time.text \notin NowStrings
           ELSE ~InTimestampRange(ParseStartTime(rows[i].Start_Time))

\* The name ends in a dot and the extension.
HasExtension(name, extension) ==
    /\ Len(name) > Len(extension)
    /\ SubSeq(name, Len(name) - Len(extension), Len(name)) = <<".">> \o extension

\* C1: for cutoff_hour in 0..23, assign_sleep_day returns the previous calendar
\* date when 0 <= hour < cutoff_hour (the last day of the previous month or year
\* on a 1st) and the timestamp's own date when hour >= cutoff_hour, the hour
\* equal to cutoff_hour included, for every timestamp.
C1_AssignSleepDay ==
    (asd.called /\ asd.cutoff_hour \in 0..23) =>
        /\ asd.raised = "none"
        /\ asd.bedtime.hour < asd.cutoff_hour =>
               asd.result = PreviousCalendarDate(asd.bedtime.date)
        /\ asd.bedtime.hour >= asd.cutoff_hour => asd.result = asd.bedtime.date

\* C7: assign_sleep_day called with cutoff_hour outside 0..23 is rejected with
\* an InvalidConfiguration error and returns no date.
C7_CutoffRejected ==
    (asd.called /\ asd.cutoff_hour \notin 0..23) =>
        asd.raised = "InvalidConfiguration" /\ asd.result = NoDate

\* hours is the float64 quotient of the one record, or the float64 sum of
\* the quotients of the two records, whose rows are on.
SumOfFew(hours, on) ==
    /\ \A i \in on : on = {i} => FEq(hours, HoursOf(csv[i].Time_Asleep.value))
    /\ \A i, j \in on :
          (i # j /\ on = {i, j}) =>
              FEq(hours, FAdd(HoursOf(csv[i].Time_Asleep.value),
                              HoursOf(csv[j].Time_Asleep.value)))

\* C2: every output row's sleep_hours is the sum of minutes_asleep/60 over
\* exactly the input records assigned to the row's date, as float64 numbers:
\* within rounding error of the night's total minutes over 60, exactly the
\* quotient minutes_asleep/60 for a date with a single record, and exactly the
\* float64 sum of the two quotients for a date with two.
C2_GroupSums ==
    \A c \in DOMAIN ret : \A k \in DOMAIN ret[c].date :
        /\ Near(ExactTimes(ret[c].sleep_hours[k], MinutesPerHour),
                FFromInt(MinutesOn(csv, ret[c].date[k], Len(csv))))
        /\ SumOfFew(ret[c].sleep_hours[k], RowsOn(csv, ret[c].date[k]))

C2_Witness ==
    /\ Len(ret) >= 1
    /\ \E k \in DOMAIN ret[1].date :
          /\ Cardinality(RowsOn(csv, ret[1].date[k])) >= 2
          /\ \E i \in RowsOn(csv, ret[1].date[k]) :
                csv[i].Start_Time.stamp.date # ret[1].date[k]
          /\ FLess(FZero, ret[1].sleep_hours[k])
    /\ \E k \in DOMAIN ret[1].date : Cardinality(RowsOn(csv, ret[1].date[k])) = 1

\* C3: whatever the order of the input rows, the output rows are in strictly
\* ascending date order, and the output dates are exactly the dates assigned
\* to the input records, each once.
C3_SortedDistinctDates ==
    \A c \in DOMAIN ret :
        /\ \A k \in 1..(Len(ret[c].date) - 1) :
              DateLess(ret[c].date[k], ret[c].date[k + 1])
        /\ {ret[c].date[k] : k \in DOMAIN ret[c].date}
             = {NightOf(csv[i]) : i \in DOMAIN csv}
        /\ Len(ret[c].date) = Cardinality({NightOf(csv[i]) : i \in DOMAIN csv})

C3_Witness ==
    /\ Len(ret) >= 1
    /\ Len(ret[1].date) >= 3
    /\ Len(csv) >= 3
    /\ \A i \in 1..(Len(csv) - 1) : DateLess(NightOf(csv[i + 1]), NightOf(csv[i]))

\* C4: rolling_14d_debt of the output row at position k (from 0) is the sum of
\* TARGET_SLEEP - sleep_hours over the output rows max(0, k-13)..k, counted in
\* rows and not in calendar days, within float64 rounding error; the first
\* row's is exactly -(sleep_hours - TARGET_SLEEP).
C4_RollingDebt ==
    \A c \in DOMAIN ret :
        /\ SumsOver(ret[c].rolling_14d_debt, DebtOf(ret[c].sleep_hours), DebtWindow)
        /\ ret[c].date # <<>> =>
              FEq(ret[c].rolling_14d_debt[1],
                  FNeg(FSub(ret[c].sleep_hours[1], FFromInt(TARGET_SLEEP))))

C4_Witness ==
    /\ Len(ret) >= 1
    /\ Len(ret[1].date) > DebtWindow
    /\ ~FEq(ret[1].sleep_hours[1], FFromInt(TARGET_SLEEP))
    /\ \E k \in 1..DebtWindow :
          ToOrdinal(ret[1].date[k + 1]) > ToOrdinal(ret[1].date[k]) + 1
    /\ ~Near(ret[1].rolling_14d_debt[DebtWindow + 1],
             ExactAdd(ret[1].rolling_14d_debt[DebtWindow],
                      FNeg(ret[1].Sleep_Delta[DebtWindow + 1])))

\* C5: rolling_7d_sleep of the output row at position k (from 0) is the mean of
\* sleep_hours over the output rows max(0, k-6)..k, within float64 rounding
\* error: exactly the row's own value for the first row, the mean of rows 0..k
\* while k < 7, the 7 most recent rows after.
C5_RollingSleep ==
    \A c \in DOMAIN ret :
        /\ \A k \in DOMAIN ret[c].date :
              Near(ExactTimes(ret[c].rolling_7d_sleep[k],
                              k - Max(1, k - (SleepWindow - 1)) + 1),
                   ExactSum(ret[c].sleep_hours, Max(1, k - (SleepWindow - 1)), k))
        /\ ret[c].date # <<>> =>
              FEq(ret[c].rolling_7d_sleep[1], ret[c].sleep_hours[1])

C5_Witness ==
    /\ Len(ret) >= 1
    /\ Len(ret[1].date) > SleepWindow
    /\ ~Near(ExactTimes(ret[1].rolling_7d_sleep[SleepWindow + 1], SleepWindow + 1),
             ExactSum(ret[1].sleep_hours, 1, SleepWindow + 1))
    /\ Near(ExactTimes(ret[1].rolling_7d_sleep[3], 3),
            ExactSum(ret[1].sleep_hours, 1, 3))
    /\ ~FEq(ret[1].sleep_hours[2], ret[1].sleep_hours[3])

\* C6: an output row is marked below target exactly when the total of its
\* night's sessions is strictly less than TARGET_SLEEP hours, and at or above
\* target otherwise, a total of exactly TARGET_SLEEP included; the total
\* decides, not any single session.
C6_StatusColor ==
    \A c \in DOMAIN ret : \A k \in DOMAIN ret[c].date :
        /\ ret[c].color[k] \in {"lightcoral", "lightgreen"}
        /\ ret[c].color[k] = "lightcoral"
             <=> MinutesOn(csv, ret[c].date[k], Len(csv)) < TargetMinutes
        /\ ret[c].color[k] = "lightcoral"
             <=> FLess(ret[c].sleep_hours[k], FFromInt(TARGET_SLEEP))

\* C8: when a row's start time or minutes asleep cannot be parsed, the run
\* fails: augment_data returns no table, not even for the well-formed rows, and
\* plot_sleep_data is never called.
C8_MalformedAborts ==
    Malformed(csv) =>
        /\ ret = <<>>
        /\ plotted = <<>>
        /\ pc \in {"recording", "found", "loaded", "aborted"}
        /\ pc = "aborted" => err \in {"ValueError", "OutOfBoundsDatetime", "TypeError"}
        /\ pc # "aborted" => err = "none"

\* C9: get_file returns one path with the extension when a file with the
\* extension exists in the working directory and fails when none does; then
\* the run aborts before anything is parsed, augmented or plotted.
C9_GetFile ==
    pc # "recording" =>
        IF \E f \in dir : HasExtension(f, Csv)
        THEN /\ first_csv_file_found \in dir
             /\ HasExtension(first_csv_file_found, Csv)
             /\ err # "IndexError"
        ELSE /\ pc = "aborted"
             /\ err = "IndexError"
             /\ first_csv_file_found = NoFile
             /\ df = NoTable /\ ret = <<>> /\ plotted = <<>>

\* C10: a second call of augment_data on the very table object the first call
\* extended with the date and sleep_hours columns returns the same table as
\* the first: nothing a call leaves behind reaches the next one.
C10_Idempotent ==
    \A c \in DOMAIN ret :
        /\ ret[c] = ret[1]
        /\ "date" \in DOMAIN df /\ "sleep_hours" \in DOMAIN df
        /\ df.Start_Time = read_csv(csv).Start_Time
        /\ df.Time_Asleep = read_csv(csv).Time_Asleep

C10_Witness ==
    /\ Len(ret) = 2
    /\ Len(ret[2].date) >= 2
    /\ "sleep_hours" \in DOMAIN df
    /\ \E i \in DOMAIN df.sleep_hours : FLess(FZero, df.sleep_hours[i])

====
